---- MODULE Spec2Model ----
(***************************************************************************)
(* Fee ticker of core/bin/zksync_api (fee_ticker/mod.rs): the request      *)
(* serving loop FeeTicker::run, the fee and price computations, the task   *)
(* set-up of run_ticker_task, and the collaborators it starts (balancer,   *)
(* token validator, market updater).                                       *)
(***************************************************************************)
EXTENDS Integers, Sequences, FiniteSets, TLC

\* ------------------------------------------------------------------ bounds
\* Requests the callers issue in the worker-pool specification (SpecPool).
MaxReq == 3
\* Requests the callers issue in the full specification (Spec).
MaxReqFull == 1
\* Last instant of the clock.
MaxTime == 2
\* Requests issued over the start and the shutdown of the tasks.
MaxReqLife == 3

\* ------------------------------------------------------- configuration
\* config.number_of_ticker_actors
NumberOfTickers == 2
\* capacity of one ticker's inbound channel
TickerChannelSize == 1
\* config.available_liquidity_seconds
AvailableLiquiditySeconds == 1
\* config.liquidity_volume
LiquidityVolume == 1

Tickers == 1..NumberOfTickers
\* Token ids the callers ask about; id 0 is the native currency.
Tokens == {1, 2}
\* config.unconditionally_valid_tokens
UnconditionallyValid == {1}
\* The volumes the watcher reports: none, the threshold itself, above it.
Volumes == {0, LiquidityVolume, LiquidityVolume + 1}

\* ------------------------------------------------ exact rationals
\* A Ratio<BigUint> n/d * 10^(-e) is kept as <<n, d, e>> in canonical form:
\* gcd(n, d) = 1, d coprime to 10, n not divisible by 10, zero is <<0, 1, 0>>.
RECURSIVE Gcd(_, _)
Gcd(a, b) == IF b = 0 THEN a ELSE Gcd(b, a % b)

RECURSIVE RNorm(_, _, _)
RNorm(n, d, e) ==
    IF n = 0 THEN <<0, 1, 0>>
    ELSE IF Gcd(n, d) > 1 THEN RNorm(n \div Gcd(n, d), d \div Gcd(n, d), e)
    ELSE IF d % 2 = 0 THEN RNorm(5 * n, d \div 2, e + 1)
    ELSE IF d % 5 = 0 THEN RNorm(2 * n, d \div 5, e + 1)
    ELSE IF n % 10 = 0 THEN RNorm(n \div 10, d, e - 1)
    ELSE <<n, d, e>>

RFromInt(k) == RNorm(k, 1, 0)
RIsZero(a) == a[1] = 0
RMul(a, b) == RNorm(a[1] * b[1], a[2] * b[2], a[3] + b[3])
\* Ratio division; the divisor is not zero (Ratio::new panics on a zero
\* denominator, which the callers below model as a panic of the task).
RDiv(a, b) == RNorm(a[1] * b[2], a[2] * b[1], a[3] - b[3])
\* x * 10^k in place of x / 10^k
RDivPow10_mul(a, k) == RNorm(a[1], a[2], a[3] - k)

\* x / BigUint::from(10).pow(k)
RDivPow10(a, k) == RNorm(a[1], a[2], a[3] + k)

\* ------------------------------------------------ types of the requests
TxFeeTypes == { <<"Withdraw", FALSE>>, <<"FastWithdraw", FALSE>>, <<"Transfer", FALSE>>,
                <<"ChangePubKey", FALSE>>, <<"ChangePubKey", TRUE>> }
OutputFeeTypes == { <<"TransferToNew", FALSE>>, <<"Withdraw", FALSE>>, <<"FastWithdraw", FALSE>>,
                    <<"ChangePubKey", FALSE>>, <<"ChangePubKey", TRUE>> }
TokenPriceRequestType == {"USDForOneWei", "USDForOneToken"}
NoTx == <<"-", FALSE>>

\* TickerRequest: one record shape for the three variants; a field a variant
\* does not carry holds "-".  The reply slot of a request is its id.
GetTxFee(tx_type, token) ==
    [type |-> "GetTxFee", token |-> token, tx_type |-> tx_type, req_type |-> "-"]
GetTokenPrice(token, req_type) ==
    [type |-> "GetTokenPrice", token |-> token, tx_type |-> NoTx, req_type |-> req_type]
IsTokenAllowed(token) ==
    [type |-> "IsTokenAllowed", token |-> token, tx_type |-> NoTx, req_type |-> "-"]
TickerRequest ==
    { GetTxFee(x, t) : x \in TxFeeTypes, t \in Tokens }
      \cup { GetTokenPrice(t, q) : t \in Tokens, q \in TokenPriceRequestType }
      \cup { IsTokenAllowed(t) : t \in Tokens }
NoRequest == [type |-> "-", token |-> 0, tx_type |-> NoTx, req_type |-> "-"]

\* ------------------------------------------------ gas costs and TickerConfig
\* constants::* (gas units per operation); constants.rs is not part of the
\* source at hand, the values stand in for the declared ones.
BaseTransferToNewCost == 5000
BaseWithdrawCost == 8000
BaseChangePubKeyOffchainCost == 3000
BaseChangePubKeyOnchainCost == 1000
SubsidyTransferToNewCost == 500
SubsidyWithdrawCost == 4500
SubsidyChangePubKeyOffchainCost == 1500
\* config.fast_processing_coeff, an f64, as FastCoeffNum / FastCoeffDen
FastCoeffNum == 3
FastCoeffDen == 2
\* WithdrawOp::CHUNKS, TransferToNewOp::CHUNKS, ChangePubKeyOp::CHUNKS
\* (zksync_types; stand-in values)
WithdrawChunks == 6
TransferToNewChunks == 5
ChangePubKeyChunks == 4

\* (cost as f64 * fast_processing_coeff) as u32: the cast truncates.
FastCost(cost) == (cost * FastCoeffNum) \div FastCoeffDen

\* The standard map without the entry of FastWithdraw.
StandardCostEntries_no_fast ==
    { << <<"TransferToNew", FALSE>>, BaseTransferToNewCost >>,
      << <<"Withdraw", FALSE>>, BaseWithdrawCost >>,
      << <<"ChangePubKey", FALSE>>, BaseChangePubKeyOffchainCost >>,
      << <<"ChangePubKey", TRUE>>, BaseChangePubKeyOnchainCost >> }

\* GasOperationsCost::from_constants: the two maps, as sets of (key, cost).
StandardCostEntries ==
    { << <<"TransferToNew", FALSE>>, BaseTransferToNewCost >>,
      << <<"Withdraw", FALSE>>, BaseWithdrawCost >>,
      << <<"FastWithdraw", FALSE>>, FastCost(BaseWithdrawCost) >>,
      << <<"ChangePubKey", FALSE>>, BaseChangePubKeyOffchainCost >>,
      << <<"ChangePubKey", TRUE>>, BaseChangePubKeyOnchainCost >> }
SubsidizeCostEntries ==
    { << <<"TransferToNew", FALSE>>, SubsidyTransferToNewCost >>,
      << <<"Withdraw", FALSE>>, SubsidyWithdrawCost >>,
      << <<"FastWithdraw", FALSE>>, FastCost(SubsidyWithdrawCost) >>,
      << <<"ChangePubKey", FALSE>>, SubsidyChangePubKeyOffchainCost >>,
      << <<"ChangePubKey", TRUE>>, BaseChangePubKeyOnchainCost >> }

\* HashMap::get: the costs stored under a key (empty when the key is absent).
MapGet(entries, key) == { e[2] : e \in { x \in entries : x[1] = key } }

\* TickerConfig built in run_ticker_task.
ZkpCostChunkUsd == RDiv(RFromInt(1), RFromInt(1000))
\* tokens_risk_factors: HashMap::new()
TokensRiskFactors == {}
\* config.not_subsidized_tokens (addresses)
NotSubsidizedTokens == {"addr2"}

\* Token registry behind api.get_token: the canonical record of a token id.
TokenRecord(t) ==
    [id |-> t,
     address |-> IF t = 1 THEN "addr1" ELSE IF t = 2 THEN "addr2" ELSE "addr0",
     decimals |-> IF t = 1 THEN 18 ELSE IF t = 2 THEN 6 ELSE 18]

\* ------------------------------------------------ answers of the Price Source
\* One answer per upstream call a handler makes; UpErr stands for Err(_).
UpErr == 0 - 1
QuoteValues == {0, 2}
GasPriceValues == {3}
\* usd_price of the token is token_quote / quote_den: 1 for a quote that is a
\* whole number of USD, 3 for one without a finite decimal expansion.
QuoteDens == {1, 3}
Upstream ==
    [get_token : BOOLEAN,
     gas_price : {UpErr} \cup GasPriceValues,
     eth_quote : {UpErr} \cup QuoteValues,
     token_quote : {UpErr} \cup QuoteValues,
     quote_den : QuoteDens,
     subsidies_env : BOOLEAN]
\* The answers met while requests are served: the token's resolution and its
\* quote vary (failure, zero, a price), the rest answers normally.
ServedUpstream ==
    [get_token : BOOLEAN,
     gas_price : GasPriceValues,
     eth_quote : {2},
     token_quote : {UpErr} \cup QuoteValues,
     quote_den : {1},
     subsidies_env : {FALSE}]

\* get_last_quote(token).usd_price, a Ratio<BigUint>.
UsdPrice(up) == RNorm(up.token_quote, up.quote_den, 0)

\* Result<_, anyhow::Error> of a handler, with the upstream calls it made.
\* tag "Panic": the handler unwound instead of returning.
Ok(v, calls) == [tag |-> "Ok", val |-> v, calls |-> calls]
Err(origin, calls) == [tag |-> "Err", val |-> <<origin>>, calls |-> calls]
Panic(origin, calls) == [tag |-> "Panic", val |-> <<origin>>, calls |-> calls]

\* The test of the address taken the wrong way round.
is_token_subsidized_inverted(token, subsidies_env) ==
    IF ~subsidies_env THEN FALSE
    ELSE token.address \in NotSubsidizedTokens

\* FeeTicker::is_token_subsidized: the toggle is read from the process
\* environment (TICKER_SUBSIDIES_ENABLED) at every call.
is_token_subsidized(token, subsidies_env) ==
    IF ~subsidies_env THEN FALSE
    ELSE token.address \notin NotSubsidizedTokens

\* The match with the flag of ChangePubKey not carried over.
FeeTypeAndChunks_flag_lost(tx_type) ==
    IF tx_type[1] = "Withdraw" THEN << <<"Withdraw", FALSE>>, WithdrawChunks >>
    ELSE IF tx_type[1] = "FastWithdraw" THEN << <<"FastWithdraw", FALSE>>, WithdrawChunks >>
    ELSE IF tx_type[1] = "Transfer" THEN << <<"TransferToNew", FALSE>>, TransferToNewChunks >>
    ELSE << <<"ChangePubKey", FALSE>>, ChangePubKeyChunks >>

\* The (fee_type, op_chunks) match of get_fee_from_ticker_in_wei.
FeeTypeAndChunks(tx_type) ==
    IF tx_type[1] = "Withdraw" THEN << <<"Withdraw", FALSE>>, WithdrawChunks >>
    ELSE IF tx_type[1] = "FastWithdraw" THEN << <<"FastWithdraw", FALSE>>, WithdrawChunks >>
    ELSE IF tx_type[1] = "Transfer" THEN << <<"TransferToNew", FALSE>>, TransferToNewChunks >>
    ELSE << <<"ChangePubKey", tx_type[2]>>, ChangePubKeyChunks >>

\* tokens_risk_factors.get(&token.id).cloned().unwrap_or_else(|| 1)
TokenRiskFactor(id) ==
    LET found == MapGet(TokensRiskFactors, id)
    IN IF found = {} THEN RFromInt(1) ELSE CHOOSE f \in found : TRUE

\* The operator `/` of two Ratio<BigUint>: Ratio::new panics when the divisor
\* is zero.
RatioDiv(x, y) ==
    IF RIsZero(y) THEN [panic |-> TRUE, val |-> <<0, 1, 0>>]
    ELSE [panic |-> FALSE, val |-> RDiv(x, y)]

\* Fee::new: the Fee {kind, zkp_fee, gas_fee, gas_units, gas_price}, the two
\* fees kept as the exact rationals they are given as.
Fee_new(fee_type, zkp_fee, gas_fee, gas_tx_amount, gas_price_wei) ==
    <<fee_type, zkp_fee, gas_fee, gas_tx_amount, gas_price_wei>>

\* FeeTicker::get_fee_from_ticker_in_wei.
get_fee_from_ticker_in_wei(tx_type, token_like, up) ==
    IF ~up.get_token THEN Err("get_token", {"get_token"})
    ELSE
    LET token == TokenRecord(token_like)
        token_risk_factor == TokenRiskFactor(token.id)
        fee_type == FeeTypeAndChunks(tx_type)[1]
        op_chunks == FeeTypeAndChunks(tx_type)[2]
        table == IF is_token_subsidized(token, up.subsidies_env)
                 THEN SubsidizeCostEntries ELSE StandardCostEntries
        found == MapGet(table, fee_type)
    IN
    IF found = {} THEN Panic("gas_cost_tx", {"get_token"})
    ELSE IF up.gas_price = UpErr
         THEN Err("get_gas_price_wei", {"get_token", "get_gas_price_wei"})
    ELSE IF up.eth_quote = UpErr \/ up.token_quote = UpErr
         THEN Err("get_last_quote", {"get_token", "get_gas_price_wei", "get_last_quote"})
    ELSE
    LET calls == {"get_token", "get_gas_price_wei", "get_last_quote"}
        gas_tx_amount == CHOOSE g \in found : TRUE
        gas_price_wei == up.gas_price
        wei_price_usd == RDivPow10(RFromInt(up.eth_quote), 18)
        token_price_usd == RDivPow10(UsdPrice(up), token.decimals)
        zkp_fee == RatioDiv(
                       RMul(RMul(ZkpCostChunkUsd, RFromInt(op_chunks)), token_risk_factor),
                       token_price_usd)
        gas_fee == RatioDiv(
                       RMul(RMul(RMul(wei_price_usd, RFromInt(gas_tx_amount)),
                                 RFromInt(gas_price_wei)),
                            token_risk_factor),
                       token_price_usd)
    IN IF zkp_fee.panic \/ gas_fee.panic
       THEN Panic("division by zero", calls)
       ELSE Ok(Fee_new(fee_type, zkp_fee.val, gas_fee.val, gas_tx_amount, gas_price_wei),
               calls)

\* zksync_utils::ratio_to_big_decimal(ratio, precision): the BigDecimal with
\* `precision` fractional digits.  A ratio with a terminating expansion of at
\* most `precision` digits converts exactly: [cut |-> FALSE, of |-> ratio];
\* any other is cut to its first `digits` fractional digits.
ratio_to_big_decimal(ratio, precision) ==
    IF ratio[2] = 1 /\ ratio[3] <= precision
    THEN [cut |-> FALSE, of |-> ratio, digits |-> 0]
    ELSE [cut |-> TRUE, of |-> ratio, digits |-> precision]

\* get_token_price with the factors of the two request types exchanged.
get_token_price_swapped(token_like, request_type, up) ==
    IF request_type = "USDForOneWei" /\ ~up.get_token
    THEN Err("get_token", {"get_token"})
    ELSE
    LET exponent == IF request_type = "USDForOneWei"
                    THEN 0 ELSE TokenRecord(token_like).decimals
        calls == IF request_type = "USDForOneWei"
                 THEN {"get_token", "get_last_quote"} ELSE {"get_last_quote"}
    IN IF up.token_quote = UpErr THEN Err("get_last_quote", calls)
       ELSE Ok(<<ratio_to_big_decimal(RDivPow10(UsdPrice(up), exponent), 100)>>, calls)

\* FeeTicker::get_token_price
get_token_price(token_like, request_type, up) ==
    IF request_type = "USDForOneWei" /\ ~up.get_token
    THEN Err("get_token", {"get_token"})
    ELSE
    LET exponent == IF request_type = "USDForOneWei"
                    THEN TokenRecord(token_like).decimals ELSE 0
        calls == IF request_type = "USDForOneWei"
                 THEN {"get_token", "get_last_quote"} ELSE {"get_last_quote"}
    IN IF up.token_quote = UpErr THEN Err("get_last_quote", calls)
       ELSE Ok(<<ratio_to_big_decimal(RDivPow10(UsdPrice(up), exponent), 100)>>, calls)

\* ------------------------------------------------ validator and liquidity cache
NoEntry == [present |-> FALSE, volume |-> 0, timestamp |-> 0]
Entry(v, t) == [present |-> TRUE, volume |-> v, timestamp |-> t]

\* token_allowed with an entry as old as the TTL already counted as stale.
token_allowed_stale_at_ttl(token, entries, time) ==
    IF token \in UnconditionallyValid THEN Ok(<<TRUE>>, {})
    ELSE IF ~entries[token].present
              \/ time - entries[token].timestamp >= AvailableLiquiditySeconds
         THEN Ok(<<FALSE>>, {})
    ELSE Ok(<<entries[token].volume >= LiquidityVolume>>, {})

\* token_allowed without the check of the entry's age.
token_allowed_no_ttl(token, entries, time) ==
    IF token \in UnconditionallyValid THEN Ok(<<TRUE>>, {})
    ELSE IF ~entries[token].present THEN Ok(<<FALSE>>, {})
    ELSE Ok(<<entries[token].volume >= LiquidityVolume>>, {})

\* FeeTokenValidator::token_allowed over the cached liquidity entries.
token_allowed(token, entries, time) ==
    IF token \in UnconditionallyValid THEN Ok(<<TRUE>>, {})
    ELSE IF ~entries[token].present
              \/ time - entries[token].timestamp > AvailableLiquiditySeconds
         THEN Ok(<<FALSE>>, {})
    ELSE Ok(<<entries[token].volume >= LiquidityVolume>>, {})

\* ------------------------------------------------------------------ state
VARIABLES
    source,        \* config.token_price_source
    requests,      \* the shared inbound channel (tricker_requests): request ids
    inbound_open,  \* the callers still hold a Sender of the shared channel
    issued,        \* number of requests the callers have issued
    req,           \* req[r]: the TickerRequest with reply slot r
    slot,          \* slot[r]: the oneshot reply channel of request r
    channels,      \* channels[w]: the inbound channel of ticker w (balancer)
    balancer,      \* the TickerBalancer task
    ticker,        \* ticker[w]: the FeeTicker task w
    cache,         \* the liquidity entry of every token
    updater,       \* the MarketUpdater task
    now,           \* the clock
    fee_call,      \* the arguments and upstream answers of direct calls of the
                   \* fee and price functions
    fee_result     \* what those calls returned

vars == <<source, requests, inbound_open, issued, req, slot, channels, balancer,
          ticker, cache, updater, now, fee_call, fee_result>>

ReqIds == 1..MaxReq
NoReply == [tag |-> "None", val |-> <<>>]
\* rx, tx: the Receiver (caller) and the Sender (inside the request) of the
\* oneshot channel; sends, delivered: sends performed on it and values that
\* reached the caller; taken, by: times a ticker dequeued the request, and the
\* last ticker that did; calls: the upstream calls made while serving it.
FreshSlot == [rx |-> "unused", tx |-> "unused", sends |-> 0, delivered |-> 0,
              reply |-> NoReply, calls |-> {}, taken |-> 0, by |-> 0]
\* The order in which the updater walks the known tokens.
TokenOrder == <<1, 2>>

\* No direct call of the fee and price functions is made or was made.  Of
\* the results, fee and prev_fee are the last two of the fee computation and
\* env is what TICKER_SUBSIDIES_ENABLED held at the last one.
NoResult == [tag |-> "None", val |-> <<>>, calls |-> {}]
NoCall == [tx_type |-> NoTx, token |-> 0,
           up |-> [get_token |-> FALSE, gas_price |-> UpErr, eth_quote |-> UpErr,
                   token_quote |-> UpErr, quote_den |-> 1, subsidies_env |-> FALSE]]
NoResults == [fee |-> NoResult, prev_fee |-> NoResult, env |-> FALSE,
              price_wei |-> NoResult, price_token |-> NoResult]

\* The state after run_ticker_task returned: the updater is spawned, then
\* either one ticker on the shared channel (CoinMarketCap) or the balancer
\* with its tickers (CoinGecko).
TaskInit(sources) ==
    /\ source \in sources
    /\ requests = <<>>
    /\ inbound_open = TRUE
    /\ issued = 0
    /\ req = [r \in ReqIds |-> NoRequest]
    /\ slot = [r \in ReqIds |-> FreshSlot]
    /\ channels = [w \in Tickers |-> <<>>]
    /\ balancer = [pc |-> IF source = "CoinGecko" THEN "running" ELSE "absent", next |-> 1]
    /\ ticker = [w \in Tickers |->
                   [pc |-> IF source = "CoinGecko" \/ w = 1 THEN "waiting" ELSE "absent",
                    request |-> 0, fault |-> "-"]]
    /\ cache = [t \in Tokens |-> NoEntry]
    /\ updater = [pc |-> "sleeping", idx |-> 1]
    /\ now = 0

InitWith(sources) ==
    /\ TaskInit(sources)
    /\ fee_call = NoCall
    /\ fee_result = NoResults

\* ------------------------------------------------------------------ callers
\* A caller creates a request with a fresh oneshot channel and sends it.
Issue(shape, limit) ==
    /\ inbound_open
    /\ issued < limit
    /\ issued' = issued + 1
    /\ req' = [req EXCEPT ![issued + 1] = shape]
    /\ slot' = [slot EXCEPT ![issued + 1] = [FreshSlot EXCEPT !.rx = "waiting", !.tx = "live"]]
    /\ requests' = Append(requests, issued + 1)
    /\ UNCHANGED <<fee_call, fee_result,
                   source, inbound_open, channels, balancer, ticker, cache, updater, now>>

\* A caller drops the Receiver of its reply slot before the reply was sent.
Abandon(r) ==
    /\ slot[r].rx = "waiting"
    /\ slot[r].tx = "live"
    /\ slot' = [slot EXCEPT ![r].rx = "dropped"]
    /\ UNCHANGED <<fee_call, fee_result,
                   source, requests, inbound_open, issued, req, channels, balancer,
                   ticker, cache, updater, now>>

\* The callers drop every Sender of the shared channel.
CloseInbound ==
    /\ inbound_open
    /\ inbound_open' = FALSE
    /\ UNCHANGED <<fee_call, fee_result,
                   source, requests, issued, req, slot, channels, balancer, ticker,
                   cache, updater, now>>

\* ------------------------------------------------------------------ balancer
CanAccept(w) == ticker[w].pc \in {"waiting", "handling"} /\ Len(channels[w]) < TickerChannelSize

\* The tickers in round-robin order starting at `start`.
Rotation(start) == [i \in 1..NumberOfTickers |-> ((start + i - 2) % NumberOfTickers) + 1]

\* Round-robin without the fallback: only the ticker whose turn it is.
SelectChannel_strict(start) == IF CanAccept(start) THEN start ELSE 0

\* The channel a request is forwarded to: the first ticker, in round-robin
\* order from `start`, whose channel accepts it; 0 when none does.
SelectChannel(start) ==
    LET able == { i \in 1..NumberOfTickers : CanAccept(Rotation(start)[i]) }
    IN IF able = {} THEN 0
       ELSE Rotation(start)[CHOOSE i \in able : \A j \in able : i <= j]

\* TickerBalancer::run, one turn of the dispatch loop.
BalancerDispatch ==
    /\ balancer.pc = "running"
    /\ requests # <<>>
    /\ SelectChannel(balancer.next) # 0
    /\ channels' = [channels EXCEPT ![SelectChannel(balancer.next)] = Append(@, Head(requests))]
    /\ requests' = Tail(requests)
    /\ balancer' = [balancer EXCEPT !.next = (balancer.next % NumberOfTickers) + 1]
    /\ UNCHANGED <<fee_call, fee_result,
                   source, inbound_open, issued, req, slot, ticker, cache, updater, now>>

\* TickerBalancer::run ends when the shared channel is closed and drained;
\* dropping the balancer closes every ticker channel.
BalancerStop ==
    /\ balancer.pc = "running"
    /\ requests = <<>>
    /\ ~inbound_open
    /\ balancer' = [balancer EXCEPT !.pc = "done"]
    /\ UNCHANGED <<fee_call, fee_result,
                   source, requests, inbound_open, issued, req, slot, channels, ticker,
                   cache, updater, now>>

\* ------------------------------------------------------------------ tickers
\* self.requests of ticker w: the shared channel itself when no balancer runs.
Inbox(w) == IF source = "CoinMarketCap" THEN requests ELSE channels[w]
InboxClosed(w) == IF source = "CoinMarketCap" THEN ~inbound_open ELSE balancer.pc = "done"
Queued(w) == { Inbox(w)[i] : i \in 1..Len(Inbox(w)) }

\* A loop that takes the next request without awaiting the handler of the
\* one before (a handler spawned per request).
TickerDequeue_overlap(w) ==
    /\ ticker[w].pc \in {"waiting", "handling"}
    /\ Inbox(w) # <<>>
    /\ ticker' = [ticker EXCEPT ![w] = [@ EXCEPT !.pc = "handling",
                                                  !.request = Head(Inbox(w))]]
    /\ slot' = [slot EXCEPT ![Head(Inbox(w))] = [@ EXCEPT !.taken = @ + 1, !.by = w]]
    /\ IF source = "CoinMarketCap"
       THEN requests' = Tail(requests) /\ UNCHANGED channels
       ELSE channels' = [channels EXCEPT ![w] = Tail(@)] /\ UNCHANGED requests
    /\ UNCHANGED <<fee_call, fee_result, source, inbound_open, issued, req, balancer, cache,
                   updater, now>>

\* FeeTicker::run, `self.requests.next().await` yields Some(request).
TickerDequeue(w) ==
    /\ ticker[w].pc = "waiting"
    /\ Inbox(w) # <<>>
    /\ ticker' = [ticker EXCEPT ![w] = [@ EXCEPT !.pc = "handling",
                                                  !.request = Head(Inbox(w))]]
    /\ slot' = [slot EXCEPT ![Head(Inbox(w))] = [@ EXCEPT !.taken = @ + 1, !.by = w]]
    /\ IF source = "CoinMarketCap"
       THEN requests' = Tail(requests) /\ UNCHANGED channels
       ELSE channels' = [channels EXCEPT ![w] = Tail(@)] /\ UNCHANGED requests
    /\ UNCHANGED <<fee_call, fee_result,
                   source, inbound_open, issued, req, balancer, cache, updater, now>>

\* FeeTicker::run, `self.requests.next().await` yields None: the loop ends.
TickerStop(w) ==
    /\ ticker[w].pc = "waiting"
    /\ Inbox(w) = <<>>
    /\ InboxClosed(w)
    /\ ticker' = [ticker EXCEPT ![w].pc = "done"]
    /\ UNCHANGED <<fee_call, fee_result,
                   source, requests, inbound_open, issued, req, slot, channels, balancer,
                   cache, updater, now>>

\* oneshot::Sender::send(result): the slot afterwards.  The value reaches the
\* caller unless the Receiver was dropped (then send returns Err(result)).
SendReply(s, result) ==
    [s EXCEPT !.sends = @ + 1,
              !.tx = "sent",
              !.delivered = IF s.rx = "waiting" THEN @ + 1 ELSE @,
              !.reply = IF s.rx = "waiting" THEN [tag |-> result.tag, val |-> result.val]
                        ELSE @,
              !.calls = result.calls]

\* `response.send(x).unwrap()`: the Err of a dropped Receiver unwinds the task.
AfterSend_unwrap(s) == IF s.rx = "dropped" THEN "panicked" ELSE "waiting"

\* `response.send(x).unwrap_or_default()`: where the task is after the send
\* on slot s; the Err of a dropped Receiver is replaced by ().
AfterSend(s) == "waiting"

\* The handler of ticker w ended with `result`: either the reply is sent and
\* the loop goes on, or the handler panicked and the task unwinds, dropping
\* the request in hand and the Receiver with everything queued on it.
Finish(w, result) ==
    LET r == ticker[w].request
        lost == Queued(w) \cup {r}
    IN IF result.tag = "Panic"
       THEN /\ ticker' = [ticker EXCEPT ![w] = [pc |-> "panicked", request |-> 0,
                                                  fault |-> result.val[1]]]
            /\ slot' = [q \in ReqIds |->
                          IF q = r THEN [slot[q] EXCEPT !.tx = "dropped", !.calls = result.calls]
                          ELSE IF q \in lost THEN [slot[q] EXCEPT !.tx = "dropped"]
                          ELSE slot[q]]
            /\ IF source = "CoinMarketCap"
               THEN requests' = <<>> /\ inbound_open' = FALSE /\ UNCHANGED channels
               ELSE channels' = [channels EXCEPT ![w] = <<>>]
                    /\ UNCHANGED <<requests, inbound_open>>
       ELSE /\ slot' = [slot EXCEPT ![r] = SendReply(@, result)]
            /\ ticker' = [ticker EXCEPT ![w] = [@ EXCEPT !.pc = AfterSend(slot[r]),
                                                          !.request = 0]]
            /\ UNCHANGED <<requests, inbound_open, channels>>

\* FeeTicker::run, arm TickerRequest::GetTxFee.
HandleGetTxFee(w, ups) ==
    /\ ticker[w].pc = "handling"
    /\ req[ticker[w].request].type = "GetTxFee"
    /\ \E result \in { get_fee_from_ticker_in_wei(req[ticker[w].request].tx_type,
                                                  req[ticker[w].request].token, up) :
                        up \in ups } :
           Finish(w, result)
    /\ UNCHANGED <<fee_call, fee_result, source, issued, req, balancer, cache, updater, now>>

\* FeeTicker::run, arm TickerRequest::GetTokenPrice.
HandleGetTokenPrice(w, ups) ==
    /\ ticker[w].pc = "handling"
    /\ req[ticker[w].request].type = "GetTokenPrice"
    /\ \E result \in { get_token_price(req[ticker[w].request].token,
                                       req[ticker[w].request].req_type, up) :
                        up \in ups } :
           Finish(w, result)
    /\ UNCHANGED <<fee_call, fee_result, source, issued, req, balancer, cache, updater, now>>

\* The IsTokenAllowed arm with an inline refresh: a token without an entry
\* is looked up at the watcher and the answer is written to the cache.
HandleIsTokenAllowed_refresh(w) ==
    /\ ticker[w].pc = "handling"
    /\ req[ticker[w].request].type = "IsTokenAllowed"
    /\ LET t == req[ticker[w].request].token
           fresh == [cache EXCEPT ![t] = Entry(LiquidityVolume, now)]
       IN IF cache[t].present
          THEN Finish(w, token_allowed(t, cache, now)) /\ UNCHANGED cache
          ELSE /\ Finish(w, [token_allowed(t, fresh, now) EXCEPT !.calls = {"liquidity"}])
               /\ cache' = fresh
    /\ UNCHANGED <<fee_call, fee_result, source, issued, req, balancer, updater, now>>

\* FeeTicker::run, arm TickerRequest::IsTokenAllowed.
HandleIsTokenAllowed(w) ==
    /\ ticker[w].pc = "handling"
    /\ req[ticker[w].request].type = "IsTokenAllowed"
    /\ Finish(w, token_allowed(req[ticker[w].request].token, cache, now))
    /\ UNCHANGED <<fee_call, fee_result, source, issued, req, balancer, cache, updater, now>>

\* ------------------------------------------------------------------ updater
\* MarketUpdater::keep_updated: the interval timer fires, a cycle starts.
UpdaterWake ==
    /\ updater.pc = "sleeping"
    /\ updater' = [pc |-> "cycle", idx |-> 1]
    /\ UNCHANGED <<fee_call, fee_result,
                   source, requests, inbound_open, issued, req, slot, channels, balancer,
                   ticker, cache, now>>

\* One token of the cycle, with `?` on the watcher's answer: a failure ends
\* the task.
UpdaterStep_abort(answer) ==
    /\ updater.pc = "cycle"
    /\ cache' = IF answer = UpErr THEN cache
                ELSE [cache EXCEPT ![TokenOrder[updater.idx]] = Entry(answer, now)]
    /\ updater' = IF answer = UpErr THEN [updater EXCEPT !.pc = "failed"]
                  ELSE IF updater.idx = Len(TokenOrder) THEN [pc |-> "sleeping", idx |-> 1]
                  ELSE [updater EXCEPT !.idx = @ + 1]
    /\ UNCHANGED <<fee_call, fee_result, source, requests, inbound_open, issued, req, slot,
                   channels, balancer, ticker, now>>

\* One token of the cycle: the watcher is asked for its volume; an answer
\* overwrites the entry with (volume, now), a failure leaves it as it was.
UpdaterStep(answer) ==
    /\ updater.pc = "cycle"
    /\ cache' = IF answer = UpErr THEN cache
                ELSE [cache EXCEPT ![TokenOrder[updater.idx]] = Entry(answer, now)]
    /\ updater' = IF updater.idx = Len(TokenOrder) THEN [pc |-> "sleeping", idx |-> 1]
                  ELSE [updater EXCEPT !.idx = @ + 1]
    /\ UNCHANGED <<fee_call, fee_result,
                   source, requests, inbound_open, issued, req, slot, channels, balancer,
                   ticker, now>>

\* Time passes.
Tick ==
    /\ now < MaxTime
    /\ now' = now + 1
    /\ UNCHANGED <<fee_call, fee_result,
                   source, requests, inbound_open, issued, req, slot, channels, balancer,
                   ticker, cache, updater>>

\* ------------------------------------------------------------ specifications
\* The requests the callers issue in each specification.
PoolShapes == { GetTxFee(<<"Transfer", FALSE>>, 2), GetTokenPrice(2, "USDForOneWei"),
                IsTokenAllowed(1) }
FullShapes == { GetTxFee(<<"Withdraw", FALSE>>, 1), GetTokenPrice(1, "USDForOneToken"),
                IsTokenAllowed(1), IsTokenAllowed(2) }

Serve(ups) ==
    \/ BalancerDispatch
    \/ \E w \in Tickers : TickerDequeue(w)
    \/ \E w \in Tickers : HandleGetTxFee(w, ups)
    \/ \E w \in Tickers : HandleGetTokenPrice(w, ups)
    \/ \E w \in Tickers : HandleIsTokenAllowed(w)

\* The whole program: callers, balancer, tickers, updater and clock.
Init == InitWith({"CoinGecko"})
Next ==
    \/ \E shape \in FullShapes : Issue(shape, MaxReqFull)
    \/ Serve(ServedUpstream)
    \/ UpdaterWake
    \/ \E answer \in {UpErr} \cup Volumes : UpdaterStep(answer)
    \/ Tick
Spec == Init /\ [][Next]_vars

\* The worker pool while the updater sleeps on its interval timer.
InitPool == InitWith({"CoinGecko"})
NextPool ==
    \/ \E shape \in PoolShapes : Issue(shape, MaxReq)
    \/ \E r \in ReqIds : Abandon(r)
    \/ Serve(ServedUpstream)
SpecPool == InitPool /\ [][NextPool]_vars

\* The shutdown of the pool: the callers drop the shared channel's Senders at
\* any moment, the balancer and the tickers run to their end.
InitDrain == InitWith({"CoinGecko"})
NextDrain ==
    \/ \E shape \in PoolShapes : Issue(shape, MaxReqLife)
    \/ CloseInbound
    \/ BalancerStop
    \/ \E w \in Tickers : TickerStop(w)
    \/ Serve(ServedUpstream)
SpecDrain == InitDrain /\ [][NextDrain]_vars

\* run_ticker_task step by step, for either token price source.  Before it
\* spawns a task the task is "unspawned"; callers already hold Senders of the
\* shared channel.
InitBoot ==
    /\ source \in {"CoinGecko", "CoinMarketCap"}
    /\ requests = <<>>
    /\ inbound_open = TRUE
    /\ issued = 0
    /\ req = [r \in ReqIds |-> NoRequest]
    /\ slot = [r \in ReqIds |-> FreshSlot]
    /\ channels = [w \in Tickers |-> <<>>]
    /\ balancer = [pc |-> "unspawned", next |-> 1]
    /\ ticker = [w \in Tickers |-> [pc |-> "unspawned", request |-> 0, fault |-> "-"]]
    /\ cache = [t \in Tokens |-> NoEntry]
    /\ updater = [pc |-> "unspawned", idx |-> 1]
    /\ now = 0
    /\ fee_call = NoCall
    /\ fee_result = NoResults

\* tokio::spawn(updater.keep_updated(..)), the first task spawned.
SpawnUpdater ==
    /\ updater.pc = "unspawned"
    /\ updater' = [updater EXCEPT !.pc = "sleeping"]
    /\ UNCHANGED <<fee_call, fee_result, source, requests, inbound_open, issued, req, slot,
                   channels, balancer, ticker, cache, now>>

\* The match on the source taken as if it were always CoinGecko: balancer and
\* number_of_ticker_actors tickers.
SpawnTickers_pool ==
    /\ updater.pc # "unspawned"
    /\ balancer.pc = "unspawned"
    /\ balancer' = [balancer EXCEPT !.pc = "running"]
    /\ ticker' = [w \in Tickers |-> [ticker[w] EXCEPT !.pc = "waiting"]]
    /\ UNCHANGED <<fee_call, fee_result, source, requests, inbound_open, issued, req, slot,
                   channels, cache, updater, now>>

\* The match on the token price source, after the updater was spawned:
\* CoinMarketCap spawns one FeeTicker on the shared channel, CoinGecko the
\* balancer and its number_of_ticker_actors tickers.
SpawnTickers ==
    /\ updater.pc # "unspawned"
    /\ balancer.pc = "unspawned"
    /\ balancer' = [balancer EXCEPT !.pc = IF source = "CoinGecko" THEN "running"
                                           ELSE "absent"]
    /\ ticker' = [w \in Tickers |->
                    [ticker[w] EXCEPT !.pc = IF source = "CoinGecko" \/ w = 1
                                             THEN "waiting" ELSE "absent"]]
    /\ UNCHANGED <<fee_call, fee_result, source, requests, inbound_open, issued, req, slot,
                   channels, cache, updater, now>>

NextBoot ==
    \/ \E shape \in PoolShapes : Issue(shape, MaxReqLife)
    \/ SpawnUpdater
    \/ SpawnTickers
    \/ Serve(ServedUpstream)
SpecBoot == InitBoot /\ [][NextBoot]_vars

\* The fee and price functions called directly, on one token and one set of
\* upstream answers, while the process environment changes.
task_vars == <<source, requests, inbound_open, issued, req, slot, channels, balancer,
               ticker, cache, updater, now>>

\* self.get_fee_from_ticker_in_wei(fee_call.tx_type, fee_call.token).
CallGetFee ==
    /\ fee_result' = [fee_result EXCEPT
                         !.prev_fee = fee_result.fee,
                         !.env = fee_call.up.subsidies_env,
                         !.fee = get_fee_from_ticker_in_wei(fee_call.tx_type, fee_call.token,
                                                            fee_call.up)]
    /\ UNCHANGED <<fee_call, task_vars>>

\* self.get_token_price(fee_call.token, request_type).
CallGetTokenPrice(request_type) ==
    /\ fee_result' =
           IF request_type = "USDForOneWei"
           THEN [fee_result EXCEPT
                    !.price_wei = get_token_price(fee_call.token, request_type, fee_call.up)]
           ELSE [fee_result EXCEPT
                    !.price_token = get_token_price(fee_call.token, request_type, fee_call.up)]
    /\ UNCHANGED <<fee_call, task_vars>>

\* Something in the process sets the variable TICKER_SUBSIDIES_ENABLED.
SetSubsidiesEnv(enabled) ==
    /\ fee_call.up.subsidies_env # enabled
    /\ fee_call' = [fee_call EXCEPT !.up.subsidies_env = enabled]
    /\ UNCHANGED <<fee_result, task_vars>>

InitFee ==
    /\ TaskInit({"CoinGecko"})
    /\ fee_call \in [tx_type : TxFeeTypes, token : Tokens, up : Upstream]
    /\ fee_result = NoResults
NextFee ==
    \/ CallGetFee
    \/ \E request_type \in TokenPriceRequestType : CallGetTokenPrice(request_type)
    \/ \E enabled \in BOOLEAN : SetSubsidiesEnv(enabled)
SpecFee == InitFee /\ [][NextFee]_vars

\* ------------------------------------------------------------------ claims
\* Request r is in the hands of a ticker.
InHand(r) == \E w \in Tickers : ticker[w].pc = "handling" /\ ticker[w].request = r
\* A ticker dequeued request r and is through with it.
Handled(r) == slot[r].taken > 0 /\ ~InHand(r)
\* Ticker w takes the step that ends the handling of a request of type `type`.
EndsHandling(w, type) ==
    /\ ticker[w].pc = "handling"
    /\ req[ticker[w].request].type = type
    /\ ticker'[w].pc # "handling"

\* C1: every request a ticker dequeued gets exactly one send on its reply
\* slot, whatever its upstream calls answered, and the reply is delivered
\* once, or not at all when the caller had abandoned the slot.
C1_ExactlyOneSend ==
    \A r \in ReqIds :
        Handled(r) =>
            /\ slot[r].sends = 1
            /\ slot[r].delivered = IF slot[r].rx = "dropped" THEN 0 ELSE 1

\* C2: every issued request is consumed by at most one ticker, answered at
\* most once, and never lost: its reply Sender is never dropped unused.
C2_NoLossNoDuplicate ==
    \A r \in ReqIds :
        /\ slot[r].taken <= 1
        /\ slot[r].sends <= 1
        /\ slot[r].delivered <= 1
        /\ slot[r].tx # "dropped"

\* C3: a failure while processing a request never ends the serving loop:
\* every ticker is waiting for a request or handling one.
C3_TickersKeepServing ==
    \A w \in Tickers : ticker[w].pc \in {"waiting", "handling"}

\* C4: a send on a reply slot whose caller dropped it is swallowed: the
\* value is not delivered, the ticker is back at the head of its loop, ready
\* to dequeue, and its channel keeps what was queued.
C4_DropSwallowed ==
    [][\A w \in Tickers :
          ( /\ ticker[w].pc = "handling"
            /\ slot[ticker[w].request].rx = "dropped"
            /\ slot'[ticker[w].request].sends = slot[ticker[w].request].sends + 1 )
          => /\ ticker'[w] = [pc |-> "waiting", request |-> 0, fault |-> "-"]
             /\ slot'[ticker[w].request].delivered = slot[ticker[w].request].delivered
             /\ channels'[w] = channels[w]]_vars

\* A ticker sent on an abandoned slot and afterwards answered a later request.
C4_Witness ==
    \E r, q \in ReqIds :
        /\ r < q
        /\ slot[r].rx = "dropped" /\ slot[r].sends = 1 /\ slot[r].delivered = 0
        /\ slot[q].by = slot[r].by /\ slot[q].delivered = 1

\* C5: while a request waits on the shared channel and some ticker can
\* accept it, the dispatch loop is not blocked, also when the channel of the
\* ticker whose turn it is is full.
C5_DispatchNotBlocked ==
    ( /\ balancer.pc = "running"
      /\ requests # <<>>
      /\ \E w \in Tickers : CanAccept(w) )
    => ENABLED BalancerDispatch

\* Ticker 1 has not drained its full channel, and request 3, whose turn was
\* ticker 1, was forwarded to ticker 2, which answered it.
C5_Witness ==
    /\ Len(channels[1]) = TickerChannelSize
    /\ slot[1].taken = 0
    /\ slot[3].by = 2
    /\ slot[3].delivered = 1

\* C6: a GetTxFee for a token whose price is zero does not crash the ticker
\* on the division by that price.
C6_ZeroPriceNoCrash ==
    \A w \in Tickers : ~(ticker[w].pc = "panicked" /\ ticker[w].fault = "division by zero")

\* The value sent by the step that ends the handling at ticker w.
Answer(w) == slot'[ticker[w].request].reply

\* C7: the answer to IsTokenAllowed is the decision function of the cache at
\* the time of the call: allow-listed -> true; otherwise no entry or an
\* entry older than the TTL -> false; otherwise volume >= threshold.
C7_DecisionFunction ==
    [][\A w \in Tickers :
          EndsHandling(w, "IsTokenAllowed") =>
              LET t == req[ticker[w].request].token
                  e == cache[t]
                  listed == t \in UnconditionallyValid
                  stale == now - e.timestamp > AvailableLiquiditySeconds
              IN /\ Answer(w).tag = "Ok"
                 /\ listed => Answer(w).val = <<TRUE>>
                 /\ (~listed /\ (~e.present \/ stale)) => Answer(w).val = <<FALSE>>
                 /\ (~listed /\ e.present /\ ~stale)
                        => Answer(w).val = <<e.volume >= LiquidityVolume>>]_vars

\* IsTokenAllowed(2) was answered true on an entry exactly as old as the TTL
\* whose volume is the threshold.
C7_Witness ==
    \E r \in ReqIds :
        /\ req[r] = IsTokenAllowed(2)
        /\ slot[r].reply = [tag |-> "Ok", val |-> <<TRUE>>]
        /\ cache[2] = Entry(LiquidityVolume, now - AvailableLiquiditySeconds)

\* C8 as stated: whenever the token's entry is older than the TTL, the
\* answer to IsTokenAllowed is false.
C8_StaleIsFalse ==
    [][\A w \in Tickers :
          ( /\ EndsHandling(w, "IsTokenAllowed")
            /\ cache[req[ticker[w].request].token].present
            /\ now - cache[req[ticker[w].request].token].timestamp
                   > AvailableLiquiditySeconds )
          => Answer(w).val = <<FALSE>>]_vars

\* C8, amended: for a token outside the allow-list, an entry older than the
\* TTL makes the answer false, whatever its volume.
C8_StaleUnlistedIsFalse ==
    [][\A w \in Tickers :
          ( /\ EndsHandling(w, "IsTokenAllowed")
            /\ req[ticker[w].request].token \notin UnconditionallyValid
            /\ cache[req[ticker[w].request].token].present
            /\ now - cache[req[ticker[w].request].token].timestamp
                   > AvailableLiquiditySeconds )
          => Answer(w).val = <<FALSE>>]_vars

\* IsTokenAllowed(2) was answered false on an entry older than the TTL whose
\* volume is above the threshold.
C8_Witness ==
    \E r \in ReqIds :
        /\ req[r] = IsTokenAllowed(2)
        /\ slot[r].reply = [tag |-> "Ok", val |-> <<FALSE>>]
        /\ cache[2].present
        /\ cache[2].volume > LiquidityVolume
        /\ now - cache[2].timestamp > AvailableLiquiditySeconds

\* C9: serving IsTokenAllowed makes no upstream call, neither to the Price
\* Source nor to the watcher, whatever the cache holds.
C9_NoUpstreamCall ==
    \A r \in ReqIds :
        (req[r].type = "IsTokenAllowed" /\ Handled(r)) => slot[r].calls = {}

\* IsTokenAllowed(2) was answered while the token has no entry.
C9_Witness ==
    \E r \in ReqIds :
        /\ req[r] = IsTokenAllowed(2)
        /\ slot[r].sends = 1
        /\ ~cache[2].present

\* C10: only a step of the market updater changes a liquidity entry; the
\* handling of a request and a step of the balancer leave every entry as it is.
C10_SingleWriter ==
    [][cache' # cache => \E answer \in Volumes : UpdaterStep(answer)]_vars

\* Entries were written and a request of the given type was answered.
C10_Witness ==
    /\ \A t \in Tokens : cache[t].present
    /\ \E r \in ReqIds : req[r].type = "GetTxFee" /\ slot[r].sends = 1

\* C11: the updater's step for one token of a cycle, whether the watcher
\* answered or failed, moves on to the next token of the cycle, or to the
\* sleep before the next cycle after the last token; it leaves the entry as
\* it was or overwrites it with (an answered volume, now), touches no other
\* entry, and changes no request's reply slot and no ticker.
C11_FailedQueryContained ==
    [][(updater.pc = "cycle" /\ updater' # updater) =>
          LET t == TokenOrder[updater.idx]
          IN /\ updater' = IF updater.idx = Len(TokenOrder)
                           THEN [pc |-> "sleeping", idx |-> 1]
                           ELSE [pc |-> "cycle", idx |-> updater.idx + 1]
             /\ \/ cache'[t] = cache[t]
                \/ \E v \in Volumes : cache'[t] = Entry(v, now)
             /\ \A u \in Tokens \ {t} : cache'[u] = cache[u]
             /\ slot' = slot
             /\ ticker' = ticker]_vars

\* Every query for the first token failed so far, the second token of the
\* same cycle was still written, and a later cycle is under way.
C11_Witness ==
    /\ ~cache[TokenOrder[1]].present
    /\ cache[TokenOrder[2]].present
    /\ cache[TokenOrder[2]].timestamp < now
    /\ updater = [pc |-> "cycle", idx |-> 2]

\* C12: two GetFee calls for the same tx_type and token with the same
\* upstream answers yield the same gas_tx_amount, whatever happened to the
\* process environment's subsidy setting between them.
C12_ToggleFixedAtConstruction ==
    (fee_result.fee.tag = "Ok" /\ fee_result.prev_fee.tag = "Ok") =>
        fee_result.fee.val[4] = fee_result.prev_fee.val[4]

\* The chunk counts of the operations, by kind of fee.
ClaimedChunks(kind) ==
    CASE kind[1] = "TransferToNew" -> TransferToNewChunks
      [] kind[1] \in {"Withdraw", "FastWithdraw"} -> WithdrawChunks
      [] kind[1] = "ChangePubKey" -> ChangePubKeyChunks
\* 10^k as a rational, and the USD prices of one atomic unit of the token of
\* the call and of one wei, from the quotes the upstream answered.
Pow10(k) == <<1, 1, 0 - k>>
ClaimedTokenPriceUsd ==
    RDiv(RNorm(fee_call.up.token_quote, fee_call.up.quote_den, 0),
         Pow10(TokenRecord(fee_call.token).decimals))
ClaimedNativePriceUsd == RDiv(RFromInt(fee_call.up.eth_quote), Pow10(18))

\* C13: a successful GetFee has a nonzero token price, and its fees are the
\* exact rationals zkp_fee = zkp_cost_per_chunk * chunks * risk / token_price
\* and gas_fee = native_price * gas_units * gas_price * risk / token_price
\* (checked by multiplying back with the token price), with risk 1 for a token
\* without a risk factor and with the gas_units and gas_price of the reply.
C13_ExactFees ==
    fee_result.fee.tag = "Ok" =>
        LET fee == fee_result.fee.val
            risk == RFromInt(1)
        IN /\ ~RIsZero(ClaimedTokenPriceUsd)
           /\ RMul(fee[2], ClaimedTokenPriceUsd)
                  = RMul(RMul(ZkpCostChunkUsd, RFromInt(ClaimedChunks(fee[1]))), risk)
           /\ RMul(fee[3], ClaimedTokenPriceUsd)
                  = RMul(RMul(RMul(ClaimedNativePriceUsd, RFromInt(fee[4])), RFromInt(fee[5])),
                         risk)
           /\ fee[5] = fee_call.up.gas_price

\* A fee was computed from a token price of 2/3 USD per whole token and a
\* native price of 2 USD; neither fee is zero.
C13_Witness ==
    /\ fee_result.fee.tag = "Ok"
    /\ fee_call.up.quote_den = 3
    /\ fee_call.up.eth_quote = 2
    /\ ~RIsZero(fee_result.fee.val[2])
    /\ ~RIsZero(fee_result.fee.val[3])

\* A decimal divided by 10^k: its digits move k places to the right.
DecDivPow10(d, k) ==
    [cut |-> d.cut, of |-> RDiv(d.of, Pow10(k)), digits |-> IF d.cut THEN d.digits + k ELSE 0]
\* The raw quote of the call's token as a decimal, no digit lost.
RawQuote ==
    [cut |-> FALSE, of |-> RNorm(fee_call.up.token_quote, fee_call.up.quote_den, 0),
     digits |-> 0]
BothPricesAnswered ==
    fee_result.price_wei.tag = "Ok" /\ fee_result.price_token.tag = "Ok"
PricesRelated ==
    /\ fee_result.price_wei.val[1]
          = DecDivPow10(fee_result.price_token.val[1], TokenRecord(fee_call.token).decimals)
    /\ fee_result.price_token.val[1] = RawQuote

ClaimedKindAndChunks(tx_type) ==
    CASE tx_type = <<"Withdraw", FALSE>> -> << <<"Withdraw", FALSE>>, WithdrawChunks >>
      [] tx_type = <<"FastWithdraw", FALSE>> -> << <<"FastWithdraw", FALSE>>, WithdrawChunks >>
      [] tx_type = <<"Transfer", FALSE>> -> << <<"TransferToNew", FALSE>>, TransferToNewChunks >>
      [] tx_type = <<"ChangePubKey", FALSE>> -> << <<"ChangePubKey", FALSE>>, ChangePubKeyChunks >>
      [] tx_type = <<"ChangePubKey", TRUE>> -> << <<"ChangePubKey", TRUE>>, ChangePubKeyChunks >>

\* C15: the Fee of a successful GetFee carries the fee kind the table gives
\* for the requested kind (Transfer becomes TransferToNew, the flag of
\* ChangePubKey is kept), and its zkp_fee is the one of the table's chunk
\* count.
C15_KindAndChunks ==
    fee_result.fee.tag = "Ok" =>
        /\ fee_result.fee.val[1] = ClaimedKindAndChunks(fee_call.tx_type)[1]
        /\ RMul(fee_result.fee.val[2], ClaimedTokenPriceUsd)
               = RMul(ZkpCostChunkUsd, RFromInt(ClaimedKindAndChunks(fee_call.tx_type)[2]))

\* An onchain ChangePubKey was priced as an onchain ChangePubKey.
C15_Witness ==
    /\ fee_result.fee.tag = "Ok"
    /\ fee_call.tx_type = <<"ChangePubKey", TRUE>>
    /\ fee_result.fee.val[1] = <<"ChangePubKey", TRUE>>

Terminated(w) == ticker[w].pc \in {"done", "panicked"}

\* C17: once the shared channel is closed, the balancer ends only with the
\* shared channel drained, a ticker ends only after its channel was closed
\* and after answering every request it dequeued, and when all tasks have
\* ended every issued request has been answered.
C17_ShutdownDrains ==
    ~inbound_open =>
        /\ balancer.pc = "done" => requests = <<>>
        /\ \A w \in Tickers :
              Terminated(w) =>
                  /\ InboxClosed(w)
                  /\ Inbox(w) = <<>>
                  /\ \A r \in ReqIds : slot[r].by = w => slot[r].sends = 1
        /\ (balancer.pc = "done" /\ \A w \in Tickers : Terminated(w)) =>
              \A r \in 1..issued : slot[r].sends = 1

\* C20: whatever the source, no ticker is spawned before the updater.  With
\* CoinMarketCap there is no balancer and no ticker besides the first, no
\* request enters a ticker channel, the one ticker dequeues the requests of
\* the shared channel in the order of their issue, each after the one before
\* is through, and while it handles a request every later request waits in
\* the shared channel.
C20_SingleTickerWithoutPool ==
    /\ \A w \in Tickers : ticker[w].pc # "unspawned" => updater.pc # "unspawned"
    /\ source = "CoinMarketCap" =>
          /\ balancer.pc \in {"unspawned", "absent"}
          /\ \A w \in Tickers \ {1} : ticker[w].pc \in {"unspawned", "absent"}
          /\ \A w \in Tickers : channels[w] = <<>>
          /\ \A r \in ReqIds : slot[r].by \in {0, 1}
          /\ \A q, r \in ReqIds :
                (q < r /\ slot[r].taken > 0) => (slot[q].tx # "live" /\ ~InHand(q))
          /\ \A q \in ReqIds :
                InHand(q) =>
                    \A r \in (q + 1)..issued :
                        /\ slot[r].taken = 0
                        /\ \E i \in 1..Len(requests) : requests[i] = r

\* With CoinMarketCap the one ticker answered the first request and handles
\* the second while the third waits in the shared channel.
C20_Witness ==
    /\ source = "CoinMarketCap"
    /\ slot[1].sends = 1
    /\ ticker[1].pc = "handling" /\ ticker[1].request = 2
    /\ requests = <<3>>
    /\ updater.pc = "sleeping"

\* C18: the gas_tx_amount of a successful GetFee is the subsidized map's
\* entry of the fee kind when the subsidy toggle is on and the token's
\* address is not among the non-subsidized addresses, and the standard map's
\* entry otherwise.
C18_SubsidyPredicate ==
    fee_result.fee.tag = "Ok" =>
        LET subsidized == /\ fee_result.env
                          /\ TokenRecord(fee_call.token).address \notin NotSubsidizedTokens
        IN {fee_result.fee.val[4]} =
              MapGet(IF subsidized THEN SubsidizeCostEntries ELSE StandardCostEntries,
                     fee_result.fee.val[1])

\* With the toggle on, a withdrawal of the subsidized token was priced at the
\* subsidized cost, after one priced at the standard cost with the toggle off.
C18_Witness ==
    /\ fee_result.fee.tag = "Ok" /\ fee_result.prev_fee.tag = "Ok"
    /\ fee_result.env
    /\ fee_call.tx_type = <<"Withdraw", FALSE>>
    /\ fee_result.fee.val[4] = SubsidyWithdrawCost
    /\ fee_result.prev_fee.val[4] = BaseWithdrawCost

\* C19: both gas cost maps hold exactly one cost under each of the five fee
\* kinds, and no call of the fee computation, whatever it was asked and
\* whatever the upstream answered, ends in a missing entry.
C19_GasTablesComplete ==
    /\ \A kind \in OutputFeeTypes :
          /\ Cardinality(MapGet(StandardCostEntries, kind)) = 1
          /\ Cardinality(MapGet(SubsidizeCostEntries, kind)) = 1
    /\ \A result \in {fee_result.fee, fee_result.prev_fee} :
          /\ result.tag = "Panic" => result.val # <<"gas_cost_tx">>
          /\ result.tag = "Ok" =>
                result.val[4] \in MapGet(StandardCostEntries, result.val[1])
                                    \cup MapGet(SubsidizeCostEntries, result.val[1])

\* A fast withdrawal was priced at the standard map's cost of a fast
\* withdrawal.
C19_Witness ==
    /\ fee_result.fee.tag = "Ok"
    /\ fee_call.tx_type = <<"FastWithdraw", FALSE>>
    /\ fee_result.fee.val[4] = FastCost(BaseWithdrawCost)

====
